---- MODULE Spec2Model ----
(***************************************************************************)
(* NetZero TestOps: the carbon impact calculator (Demo/impact_calculator)  *)
(* as a state machine.  A caller holds one CarbonImpactCalculator, invokes *)
(* one of its methods, keeps the outcome, may invoke the same method again *)
(* with the same arguments at a later wall-clock time, and drops it.       *)
(*                                                                         *)
(* The live dashboard (Demo/dashboard_simulator) is a second state         *)
(* machine over the same variables: one CarbonDashboardSimulator whose     *)
(* run_simulation loop accumulates the metrics of simulated tests and      *)
(* whose save_simulation_results writes them out, entered from main or     *)
(* directly, with the user's interrupt possible at every step.             *)
(*                                                                         *)
(* The framework simulators (Demo/netzero_demo) are a third state machine: *)
(* one TestFrameworkSimulator on which log_execution is called, or one     *)
(* GreenerFrameworkSimulator on which run_test_suite is called again and   *)
(* again.                                                                  *)
(*                                                                         *)
(* Python floats are modelled as exact rationals [n, d] in lowest terms;   *)
(* the inputs are multiples of coarse units so that every intermediate     *)
(* value of the formula chain stays inside TLC's integers.                 *)
(***************************************************************************)
EXTENDS Integers, Sequences, FiniteSets, TLC

VARIABLES
    self,       \* the calculator object: its coefficient attributes
    clock,      \* the wall clock datetime.now() reads
    call,       \* the invocation the caller made last: [op, args]
    ret,        \* its outcome: returned a value, or raised an exception
    prev_ret,   \* the outcome of the invocation before, when it was the same call
    current_metrics,  \* the dashboard object: energy, carbon, tests_run per framework
    pc,         \* where the dashboard program stands
    time,       \* what time.time() reads, in seconds
    end_time,   \* run_simulation's local end_time
    entry,      \* how run_simulation was entered: from main, or called directly
    pending,    \* run_simulation's locals sustainable_result and wasteful_result
    results,    \* what save_simulation_results has written to the results file
    failure,    \* the exception that ended the dashboard program, if any
    name,       \* the simulator object: its name, "none" before it is built
    execution_logs,           \* its list of log entries
    total_energy,             \* its running total of energy, joules
    total_carbon,             \* its running total of carbon, g CO2e
    http_client_initialized,  \* GreenerFrameworkSimulator's flag
    config_cached,            \* GreenerFrameworkSimulator's flag
    suite_pc,   \* where run_test_suite stands
    test_index, \* tests of test_scenarios the loop of run_test_suite has done
    suite_runs, \* run_test_suite calls that have returned
    http_initialisations,     \* times the shared HTTP client was initialised
    config_reads              \* times the configuration was read and cached

calculator_vars == <<self, clock, call, ret, prev_ret>>

dashboard_vars ==
    <<current_metrics, pc, time, end_time, entry, pending, results, failure>>

framework_vars ==
    <<name, execution_logs, total_energy, total_carbon, http_client_initialized,
      config_cached, suite_pc, test_index, suite_runs, http_initialisations,
      config_reads>>

vars == <<self, clock, call, ret, prev_ret,
          current_metrics, pc, time, end_time, entry, pending, results, failure,
          name, execution_logs, total_energy, total_carbon,
          http_client_initialized, config_cached, suite_pc, test_index,
          suite_runs, http_initialisations, config_reads>>

(***************************************************************************)
(* Bounds of the model.                                                    *)
(***************************************************************************)
MaxClock == 1       \* wall-clock values 0..MaxClock
MaxDur == 2         \* durations up to MaxDur hours
CpuDen == 2         \* cpu_utilization in steps of 1/CpuDen
MaxMem == 1         \* memory_gb up to MaxMem steps of 250 GB
MaxSto == 1         \* storage_gb up to MaxSto steps of 20 GB
MaxNet == 1         \* network_mb up to MaxNet steps of 2500 MB
MaxTests == 1       \* simulated tests per dashboard run
MaxLogs == 3        \* log_execution calls on a plain simulator
MaxRuns == 2        \* run_test_suite calls on a greener simulator
MaxScenarios == 2   \* scenarios in one report

(***************************************************************************)
(* Python arithmetic on numbers, as exact rationals.                       *)
(***************************************************************************)
Abs(i) == IF i < 0 THEN -i ELSE i

RECURSIVE GCD(_, _)
GCD(a, b) == IF b = 0 THEN a ELSE GCD(b, a % b)

NormBy(n, d, g) == [n |-> n \div g, d |-> d \div g]

\* n/d in lowest terms, d > 0
Norm(n, d) == NormBy(n, d, GCD(Abs(n), d))

Rat(n, d) == IF d < 0 THEN Norm(-n, -d) ELSE Norm(n, d)

R(i) == [n |-> i, d |-> 1]

Zero == R(0)

Neg(x) == [n |-> -x.n, d |-> x.d]

AddBy(x, y, g) ==
    Norm(x.n * (y.d \div g) + y.n * (x.d \div g), (x.d \div g) * y.d)

Add(x, y) == AddBy(x, y, GCD(x.d, y.d))

Sub(x, y) == Add(x, Neg(y))

MulBy(x, y, g1, g2) ==
    Norm((x.n \div g1) * (y.n \div g2), (x.d \div g2) * (y.d \div g1))

Mul(x, y) == MulBy(x, y, GCD(Abs(x.n), y.d), GCD(Abs(y.n), x.d))

Inv(y) == IF y.n < 0 THEN [n |-> -y.d, d |-> -y.n] ELSE [n |-> y.d, d |-> y.n]

\* x / y for y # 0; Python raises ZeroDivisionError for y = 0, which the
\* callers below test for before they divide.
Div(x, y) == Mul(x, Inv(y))

IsZero(x) == x.n = 0

Leq(x, y) == Sub(x, y).n <= 0

Lt(x, y) == Sub(x, y).n < 0

(***************************************************************************)
(* Outcomes of a call.                                                     *)
(***************************************************************************)
NoCall == [op |-> "none"]

NoRet == [status |-> "none"]

Returned(v) == [status |-> "returned", value |-> v]

\* An exception that leaves the method: e is the Python exception class.
Raised(e) == [status |-> "raised", error |-> e]

\* datetime.now().isoformat(): the text of the clock value read.
isoformat(now) == [iso |-> now]

(***************************************************************************)
(* CarbonImpactCalculator.__init__                                         *)
(***************************************************************************)
GRID_INTENSITY == 400

CPU_BASE_WATTS == 30

MEMORY_WATTS_PER_GB == Rat(372, 1000)

STORAGE_WATTS_PER_GB == Rat(65, 100)

NETWORK_WATTS_PER_MB == Rat(36, 10000)

CLOUD_PUE == Rat(112, 100)

ENERGY_COST_PER_KWH == Rat(12, 100)

CARBON_CREDIT_COST_PER_TON == 25

CarbonImpactCalculator ==
    [ GRID_INTENSITY |-> R(GRID_INTENSITY),
      CPU_BASE_WATTS |-> R(CPU_BASE_WATTS),
      MEMORY_WATTS_PER_GB |-> MEMORY_WATTS_PER_GB,
      STORAGE_WATTS_PER_GB |-> STORAGE_WATTS_PER_GB,
      NETWORK_WATTS_PER_MB |-> NETWORK_WATTS_PER_MB,
      CLOUD_PUE |-> CLOUD_PUE,
      ENERGY_COST_PER_KWH |-> ENERGY_COST_PER_KWH,
      CARBON_CREDIT_COST_PER_TON |-> R(CARBON_CREDIT_COST_PER_TON) ]

(***************************************************************************)
(* calculate_base_consumption.  Each local of the method is computed once  *)
(* and handed on as a parameter to the rest of the method.                 *)
(***************************************************************************)
duration_hours_wallclock(duration_seconds) ==
    Div(Add(duration_seconds, R(3600 * clock)), R(3600))

duration_hours(duration_seconds) == Div(duration_seconds, R(3600))

cpu_energy_idle_share(c, cpu_utilization, hours) ==
    Mul(Mul(c.CPU_BASE_WATTS, Sub(R(1), cpu_utilization)), hours)

cpu_energy(c, cpu_utilization, hours) ==
    Mul(Mul(c.CPU_BASE_WATTS, cpu_utilization), hours)

memory_energy(c, memory_gb, hours) ==
    Mul(Mul(c.MEMORY_WATTS_PER_GB, memory_gb), hours)

storage_energy(c, storage_gb, hours) ==
    Mul(Mul(c.STORAGE_WATTS_PER_GB, storage_gb), hours)

network_energy_no_duration(c, network_mb, hours) ==
    Mul(c.NETWORK_WATTS_PER_MB, network_mb)

network_energy(c, network_mb, hours) ==
    Mul(Mul(c.NETWORK_WATTS_PER_MB, network_mb), hours)

total_energy_wh(cpu, memory, storage, network) ==
    Add(Add(Add(cpu, memory), storage), network)

total_energy_with_pue_wh_divided(c, total_wh) == Div(total_wh, c.CLOUD_PUE)

total_energy_with_pue_wh(c, total_wh) == Mul(total_wh, c.CLOUD_PUE)

total_energy_joules(with_pue_wh) == Mul(with_pue_wh, R(3600))

total_energy_kwh(with_pue_wh) == Div(with_pue_wh, R(1000))

carbon_g_co2e_with_standby(c, kwh) == Add(Mul(kwh, c.GRID_INTENSITY), R(1))

carbon_g_co2e_per_wh(c, kwh) == Div(Mul(kwh, c.GRID_INTENSITY), R(1000))

carbon_g_co2e(c, kwh) == Mul(kwh, c.GRID_INTENSITY)

carbon_kg_co2e(g) == Div(g, R(1000))

\* the dictionary the method returns
consumption_record(c, s, cpu, memory, storage, network, total_wh, with_pue, joules, kwh, carbon_g) ==
    [ energy |->
        [ total_wh |-> with_pue,
          total_joules |-> joules,
          total_kwh |-> kwh,
          breakdown |->
            [ cpu_wh |-> cpu,
              memory_wh |-> memory,
              storage_wh |-> storage,
              network_wh |-> network,
              pue_overhead_wh |-> Sub(with_pue, total_wh) ] ],
      carbon |->
        [ total_g_co2e |-> carbon_g,
          total_kg_co2e |-> carbon_kg_co2e(carbon_g),
          grid_intensity_used |-> c.GRID_INTENSITY ],
      input_parameters |-> s ]

consumption_from_kwh(c, s, cpu, memory, storage, network, total_wh, with_pue, joules, kwh) ==
    consumption_record(c, s, cpu, memory, storage, network, total_wh, with_pue,
                       joules, kwh, carbon_g_co2e(c, kwh))

consumption_from_pue(c, s, cpu, memory, storage, network, total_wh, with_pue) ==
    consumption_from_kwh(c, s, cpu, memory, storage, network, total_wh, with_pue,
                         total_energy_joules(with_pue), total_energy_kwh(with_pue))

consumption_from_total(c, s, cpu, memory, storage, network, total_wh) ==
    consumption_from_pue(c, s, cpu, memory, storage, network, total_wh,
                         total_energy_with_pue_wh(c, total_wh))

consumption_from_components(c, s, cpu, memory, storage, network) ==
    consumption_from_total(c, s, cpu, memory, storage, network,
                           total_energy_wh(cpu, memory, storage, network))

consumption_from_hours(c, s, hours) ==
    consumption_from_components(c, s,
        cpu_energy(c, s.cpu_utilization, hours),
        memory_energy(c, s.memory_gb, hours),
        storage_energy(c, s.storage_gb, hours),
        network_energy(c, s.network_mb, hours))

\* The method performs no validation: it returns a result for every numeric
\* sample.  s is the keyword-argument record with storage_gb and network_mb
\* filled in (their default is 0).
calculate_base_consumption(c, s) ==
    consumption_from_hours(c, s, duration_hours(s.duration_seconds))

(***************************************************************************)
(* calculate_framework_comparison                                          *)
(***************************************************************************)
ratio_percent(baseline, optimized) ==
    Mul(Div(optimized, baseline), R(100))

\* ((baseline - optimized) / baseline) * 100, for baseline # 0
reduction_percent(baseline, optimized) ==
    Mul(Div(Sub(baseline, optimized), baseline), R(100))

saved_clamped(baseline, optimized) ==
    IF Lt(baseline, optimized) THEN Zero ELSE Sub(baseline, optimized)

\* baseline - optimized
saved(baseline, optimized) == Sub(baseline, optimized)

\* The divisions are evaluated in source order; the first one whose divisor
\* is zero raises Python's ZeroDivisionError out of the method, which has no
\* try block and no check of its own.
compare_results(sustainable_metrics, wasteful_metrics, sustainable_result, wasteful_result, now) ==
    IF IsZero(wasteful_result.energy.total_joules)
        THEN Raised("ZeroDivisionError")
    ELSE IF IsZero(wasteful_result.carbon.total_g_co2e)
        THEN Raised("ZeroDivisionError")
    ELSE IF IsZero(wasteful_metrics.duration_seconds)
        THEN Raised("ZeroDivisionError")
    ELSE IF IsZero(wasteful_metrics.cpu_utilization)
        THEN Raised("ZeroDivisionError")
    ELSE IF IsZero(wasteful_metrics.memory_gb)
        THEN Raised("ZeroDivisionError")
    ELSE Returned(
      [ timestamp |-> isoformat(now),
        comparison_summary |->
          [ energy_reduction_percent |->
                reduction_percent(wasteful_result.energy.total_joules,
                                  sustainable_result.energy.total_joules),
            carbon_reduction_percent |->
                reduction_percent(wasteful_result.carbon.total_g_co2e,
                                  sustainable_result.carbon.total_g_co2e),
            performance_improvement_percent |->
                reduction_percent(wasteful_metrics.duration_seconds,
                                  sustainable_metrics.duration_seconds),
            energy_saved_joules |->
                saved(wasteful_result.energy.total_joules,
                      sustainable_result.energy.total_joules),
            carbon_saved_g_co2e |->
                saved(wasteful_result.carbon.total_g_co2e,
                      sustainable_result.carbon.total_g_co2e) ],
        sustainable_framework |-> sustainable_result,
        wasteful_framework |-> wasteful_result,
        efficiency_analysis |->
          [ cpu_efficiency_improvement |->
                reduction_percent(wasteful_metrics.cpu_utilization,
                                  sustainable_metrics.cpu_utilization),
            memory_efficiency_improvement |->
                reduction_percent(wasteful_metrics.memory_gb,
                                  sustainable_metrics.memory_gb) ] ])

calculate_framework_comparison(c, sustainable_metrics, wasteful_metrics, now) ==
    compare_results(sustainable_metrics, wasteful_metrics,
                    calculate_base_consumption(c, sustainable_metrics),
                    calculate_base_consumption(c, wasteful_metrics), now)

\* 'equivalent_cars_removed': annual_carbon_saved_tons / 4.6
equivalent_cars_removed(annual_carbon_saved_tons) ==
    Div(annual_carbon_saved_tons, Rat(46, 10))

equivalent_trees_planted_from_tons(annual_carbon_saved_kg) ==
    Div(Div(annual_carbon_saved_kg, R(1000)), R(22))

\* 'equivalent_trees_planted': annual_carbon_saved_kg / 22
equivalent_trees_planted(annual_carbon_saved_kg) ==
    Div(annual_carbon_saved_kg, R(22))

(***************************************************************************)
(* calculate_annual_projections                                            *)
(***************************************************************************)
\* the dictionary the method returns
projection_record(c, daily_tests, daily_energy_saved_kwh, daily_carbon_saved_kg, annual_energy_saved_kwh, annual_carbon_saved_kg, annual_carbon_saved_tons, annual_energy_cost_savings, annual_carbon_credit_savings) ==
    [ projection_parameters |->
        [ daily_tests |-> daily_tests,
          projection_days |-> R(365),
          energy_cost_per_kwh |-> c.ENERGY_COST_PER_KWH,
          carbon_credit_cost_per_ton |-> c.CARBON_CREDIT_COST_PER_TON ],
      annual_environmental_impact |->
        [ energy_saved_kwh |-> annual_energy_saved_kwh,
          carbon_saved_kg |-> annual_carbon_saved_kg,
          carbon_saved_tons |-> annual_carbon_saved_tons,
          equivalent_cars_removed |->
              equivalent_cars_removed(annual_carbon_saved_tons),
          equivalent_trees_planted |->
              equivalent_trees_planted(annual_carbon_saved_kg) ],
      annual_cost_savings |->
        [ energy_cost_savings |-> annual_energy_cost_savings,
          carbon_credit_savings |-> annual_carbon_credit_savings,
          total_savings |->
              Add(annual_energy_cost_savings, annual_carbon_credit_savings) ],
      daily_impact |->
        [ energy_saved_kwh |-> daily_energy_saved_kwh,
          carbon_saved_kg |-> daily_carbon_saved_kg ] ]

projection_from_tons(c, daily_tests, daily_energy_saved_kwh, daily_carbon_saved_kg, annual_energy_saved_kwh, annual_carbon_saved_kg, annual_carbon_saved_tons) ==
    projection_record(c, daily_tests, daily_energy_saved_kwh, daily_carbon_saved_kg,
        annual_energy_saved_kwh, annual_carbon_saved_kg, annual_carbon_saved_tons,
        Mul(annual_energy_saved_kwh, c.ENERGY_COST_PER_KWH),
        Mul(annual_carbon_saved_tons, c.CARBON_CREDIT_COST_PER_TON))

projection_from_annual(c, daily_tests, daily_energy_saved_kwh, daily_carbon_saved_kg, annual_energy_saved_kwh, annual_carbon_saved_kg) ==
    projection_from_tons(c, daily_tests, daily_energy_saved_kwh,
        daily_carbon_saved_kg, annual_energy_saved_kwh, annual_carbon_saved_kg,
        Div(annual_carbon_saved_kg, R(1000)))

projection_from_daily(c, daily_tests, daily_energy_saved_kwh, daily_carbon_saved_kg) ==
    projection_from_annual(c, daily_tests, daily_energy_saved_kwh,
        daily_carbon_saved_kg,
        Mul(daily_energy_saved_kwh, R(365)), Mul(daily_carbon_saved_kg, R(365)))

calculate_annual_projections(c, daily_tests, comparison_result) ==
    projection_from_daily(c, daily_tests,
        Div(Mul(comparison_result.comparison_summary.energy_saved_joules,
                daily_tests), R(3600000)),
        Div(Mul(comparison_result.comparison_summary.carbon_saved_g_co2e,
                daily_tests), R(1000)))

(***************************************************************************)
(* generate_carbon_report                                                  *)
(***************************************************************************)
\* sum(...) over a list of numbers
RECURSIVE sum(_)
sum(seq) == IF seq = <<>> THEN Zero ELSE Add(Head(seq), sum(Tail(seq)))

\* The outcome of the comparison of each scenario, in input order.
scenario_outcomes_swapped(c, test_scenarios, now) ==
    [ i \in 1..Len(test_scenarios) |->
        calculate_framework_comparison(c, test_scenarios[i].wasteful_metrics,
                                       test_scenarios[i].sustainable_metrics, now) ]

scenario_outcomes(c, test_scenarios, now) ==
    [ i \in 1..Len(test_scenarios) |->
        calculate_framework_comparison(c, test_scenarios[i].sustainable_metrics,
                                       test_scenarios[i].wasteful_metrics, now) ]

\* c['comparison_summary'][f] for c in total_comparisons
column(total_comparisons, f) ==
    [ i \in 1..Len(total_comparisons) |-> total_comparisons[i].comparison_summary[f] ]

mock_comparison_summed(count, total_energy_saved, total_carbon_saved) ==
    [ comparison_summary |->
        [ energy_saved_joules |-> total_energy_saved,
          carbon_saved_g_co2e |-> total_carbon_saved ] ]

\* mock_comparison: the savings averaged over len(test_scenarios)
mock_comparison(count, total_energy_saved, total_carbon_saved) ==
    [ comparison_summary |->
        [ energy_saved_joules |-> Div(total_energy_saved, R(count)),
          carbon_saved_g_co2e |-> Div(total_carbon_saved, R(count)) ] ]

\* The report assembled from the aggregates, len(test_scenarios) # 0.
report_record(c, count, total_comparisons, total_energy_saved, total_carbon_saved, avg_carbon_reduction, avg_energy_reduction, now) ==
    [ report_metadata |->
        [ generated_timestamp |-> isoformat(now),
          scenarios_analyzed |-> count,
          calculator_version |-> "1.0.0" ],
      executive_summary |->
        [ average_carbon_reduction_percent |-> avg_carbon_reduction,
          average_energy_reduction_percent |-> avg_energy_reduction,
          total_energy_saved_joules |-> total_energy_saved,
          total_carbon_saved_g_co2e |-> total_carbon_saved ],
      detailed_scenarios |-> total_comparisons,
      annual_projections |->
          calculate_annual_projections(c, R(100),
            mock_comparison(count, total_energy_saved, total_carbon_saved)),
      methodology |->
        [ grid_intensity_g_co2_kwh |-> c.GRID_INTENSITY,
          cpu_base_watts |-> c.CPU_BASE_WATTS,
          memory_watts_per_gb |-> c.MEMORY_WATTS_PER_GB,
          cloud_pue_factor |-> c.CLOUD_PUE ] ]

\* The aggregated metrics over total_comparisons.  The averages divide by
\* len(total_comparisons), which is zero for an empty list: ZeroDivisionError.
aggregate_comparisons(c, total_comparisons, now) ==
    IF Len(total_comparisons) = 0 THEN Raised("ZeroDivisionError")
    ELSE Returned(
        report_record(c, Len(total_comparisons), total_comparisons,
            sum(column(total_comparisons, "energy_saved_joules")),
            sum(column(total_comparisons, "carbon_saved_g_co2e")),
            Div(sum(column(total_comparisons, "carbon_reduction_percent")),
                R(Len(total_comparisons))),
            Div(sum(column(total_comparisons, "energy_reduction_percent")),
                R(Len(total_comparisons))),
            now))

\* The loop over the scenarios has no try block: the first comparison that
\* raises ends the method with that exception.
collect_comparisons(c, test_scenarios, outcomes, now) ==
    IF \E i \in 1..Len(outcomes) : outcomes[i].status = "raised"
        THEN outcomes[CHOOSE i \in 1..Len(outcomes) :
                        /\ outcomes[i].status = "raised"
                        /\ \A j \in 1..(i - 1) : outcomes[j].status # "raised"]
    ELSE aggregate_comparisons(c,
            [ i \in 1..Len(outcomes) |->
                outcomes[i].value @@ ("scenario_name" :> test_scenarios[i].name) ],
            now)

generate_carbon_report(c, test_scenarios, now) ==
    collect_comparisons(c, test_scenarios,
                        scenario_outcomes(c, test_scenarios, now), now)

(***************************************************************************)
(* The inputs the caller draws from.                                       *)
(***************************************************************************)
\* duration in hours, cpu in steps of 1/CpuDen, memory in steps of 250 GB,
\* storage in steps of 20 GB, network in steps of 2500 MB
Sample(d, u, m, st, nw) ==
    [ duration_seconds |-> R(3600 * d),
      cpu_utilization |-> Rat(u, CpuDen),
      memory_gb |-> R(250 * m),
      storage_gb |-> R(20 * st),
      network_mb |-> R(2500 * nw) ]

\* every combination, one step below zero and one step above full cpu included
EstimateSamples ==
    { Sample(d, u, m, st, nw) :
        d \in -1..MaxDur, u \in -1..(CpuDen + 1), m \in -1..MaxMem,
        st \in -1..MaxSto, nw \in -1..MaxNet }

\* a UtilizationSample as the data model defines it
ValidSample(s) ==
    /\ Leq(Zero, s.duration_seconds)
    /\ Leq(Zero, s.cpu_utilization) /\ Leq(s.cpu_utilization, R(1))
    /\ Leq(Zero, s.memory_gb)
    /\ Leq(Zero, s.storage_gb)
    /\ Leq(Zero, s.network_mb)

CompareSamples ==
    { Sample(d, u, m, st, nw) :
        d \in 0..MaxDur, u \in 0..CpuDen, m \in {0, MaxMem},
        st \in {0, MaxSto}, nw \in {0, MaxNet} }

ScenarioNames == {"E-commerce Login Test", "Product Search Test"}

ReportSustainable == {Sample(1, 1, 1, 0, 0), Sample(2, CpuDen, 1, 1, 1)}

ReportWasteful ==
    {Sample(0, CpuDen, 1, 1, 1), Sample(1, CpuDen, 1, 0, 0), Sample(2, CpuDen, 1, 1, 1)}

ScenarioPool ==
    { [name |-> n, sustainable_metrics |-> s, wasteful_metrics |-> w] :
        n \in ScenarioNames, s \in ReportSustainable, w \in ReportWasteful }

ScenarioLists ==
    UNION { [1..k -> ScenarioPool] : k \in 0..MaxScenarios }

DailyTests == {R(-1), R(0), Rat(1, 2), R(1), R(100)}

\* comparison results a caller can hold at time now
ComparisonResults(c, now) ==
    { calculate_framework_comparison(c, sc.sustainable_metrics,
                                     sc.wasteful_metrics, t).value :
        sc \in { x \in ScenarioPool :
                   /\ x.name = "Product Search Test"
                   /\ ~IsZero(x.wasteful_metrics.duration_seconds) },
        t \in 0..now }

(***************************************************************************)
(* CarbonDashboardSimulator (Demo/dashboard_simulator.py)                  *)
(***************************************************************************)
\* the object __init__ builds
CarbonDashboardSimulator ==
    [ grid_intensity |-> R(400),
      cpu_watts |-> R(30),
      memory_watts_per_gb |-> Rat(372, 1000),
      current_metrics |->
        [ sustainable |-> [energy |-> Zero, carbon |-> Zero, tests_run |-> 0],
          wasteful |-> [energy |-> Zero, carbon |-> Zero, tests_run |-> 0] ] ]

\* The values random.uniform(a, b) is drawn from: the two ends of each range.
TestDurations == {R(3), R(8)}

SustainableCpu == {Rat(15, 100), Rat(25, 100)}

SustainableMemory == {Rat(1, 2), R(1)}

WastefulCpu == {Rat(6, 10), Rat(8, 10)}

WastefulMemory == {R(2), Rat(7, 2)}

NetworkOverhead == {Rat(1, 10), Rat(2, 10)}

\* seconds that time.sleep(random.uniform(2, 4)) lets pass
SleepSeconds == {2, 4}

\* duration_minutes a direct caller of run_simulation passes
DurationMinutes == {R(0), Rat(1, 30), R(2)}

\* the dictionary simulate_test_execution returns
simulation_result(dashboard, test_duration, cpu_utilization, memory_gb, network_efficiency, total_wh) ==
    [ energy_joules |-> Mul(total_wh, R(3600)),
      carbon_g_co2e |-> Div(Mul(total_wh, dashboard.grid_intensity), R(1000)),
      duration_seconds |-> test_duration,
      cpu_utilization |-> cpu_utilization,
      memory_gb |-> memory_gb,
      network_efficiency |-> network_efficiency ]

\* cpu_utilization, memory_gb and network_overhead are the random draws
simulate_test_execution(dashboard, framework_type, test_duration, cpu_utilization, memory_gb, network_overhead) ==
    simulation_result(dashboard, test_duration, cpu_utilization, memory_gb,
        IF framework_type = "sustainable" THEN Rat(8, 10) ELSE Rat(3, 10),
        Add(Add(Div(Mul(Mul(dashboard.cpu_watts, cpu_utilization), test_duration),
                    R(3600)),
                Div(Mul(Mul(dashboard.memory_watts_per_gb, memory_gb),
                        test_duration), R(3600))),
            IF framework_type = "sustainable" THEN Zero ELSE network_overhead))

\* current_metrics[framework] += the figures of one simulated test
add_result(metrics, result) ==
    [ energy |-> Add(metrics.energy, result.energy_joules),
      carbon |-> Add(metrics.carbon, result.carbon_g_co2e),
      tests_run |-> metrics.tests_run + 1 ]

\* The results dictionary is built before anything is written: the two
\* percentages divide by the accumulated wasteful energy and carbon.
save_simulation_results(metrics, now) ==
    IF IsZero(metrics.wasteful.energy) THEN Raised("ZeroDivisionError")
    ELSE IF IsZero(metrics.wasteful.carbon) THEN Raised("ZeroDivisionError")
    ELSE Returned(
        [ timestamp |-> isoformat(now),
          simulation_summary |->
            [ total_tests_per_framework |-> metrics.sustainable.tests_run,
              sustainable_framework |-> metrics.sustainable,
              wasteful_framework |-> metrics.wasteful,
              savings |->
                [ energy_reduction_percent |->
                    Mul(Div(Sub(metrics.wasteful.energy,
                                metrics.sustainable.energy),
                            metrics.wasteful.energy), R(100)),
                  carbon_reduction_percent |->
                    Mul(Div(Sub(metrics.wasteful.carbon,
                                metrics.sustainable.carbon),
                            metrics.wasteful.carbon), R(100)),
                  energy_saved_joules |->
                    Sub(metrics.wasteful.energy, metrics.sustainable.energy),
                  carbon_saved_g_co2e |->
                    Sub(metrics.wasteful.carbon, metrics.sustainable.carbon) ] ] ])

(***************************************************************************)
(* CarbonCalculator and the framework simulators (Demo/netzero_demo.py)    *)
(***************************************************************************)
\* the class attributes of CarbonCalculator
CarbonCalculator ==
    [ GRID_INTENSITY |-> R(400),
      CPU_POWER_WATTS |-> R(30),
      MEMORY_POWER_PER_GB |-> Rat(372, 1000) ]

\* joules = cpu_time * CPU_POWER_WATTS + cpu_time * memory_gb * MEMORY_POWER_PER_GB
calculate_energy_consumption(cls, cpu_time_seconds, memory_gb) ==
    Add(Mul(cpu_time_seconds, cls.CPU_POWER_WATTS),
        Mul(Mul(cpu_time_seconds, memory_gb), cls.MEMORY_POWER_PER_GB))

\* g CO2e = energy_joules / 3600 / 1000 * GRID_INTENSITY.  The division by
\* 1000 is taken together with the factor GRID_INTENSITY: the same rational,
\* with every intermediate denominator inside TLC's integers.
calculate_carbon_footprint(cls, energy_joules) ==
    Mul(Div(energy_joules, R(3600)), Div(cls.GRID_INTENSITY, R(1000)))

\* test_scenarios of GreenerFrameworkSimulator.run_test_suite
GreenTestScenarios ==
    << [test_name |-> "Test_Login", duration |-> Rat(75, 100), memory_gb |-> Rat(5, 10)],
       [test_name |-> "Test_Inventory", duration |-> Rat(85, 100), memory_gb |-> Rat(3, 10)],
       [test_name |-> "Test_Checkout", duration |-> Rat(95, 100), memory_gb |-> Rat(6, 10)] >>

\* names a caller gives a plain TestFrameworkSimulator
SimulatorNames == {"NonGreenTestFramework"}

\* arguments a caller passes to log_execution directly
LogTestNames == {"Test_Login", "Test_Checkout"}

LogDurations == {R(1)}

LogEnergies == {R(0), Rat(1, 2), R(30)}

LogCarbons == {R(0), Rat(1, 300)}

(***************************************************************************)
(* The state machine.                                                      *)
(***************************************************************************)
Init ==
    /\ self = CarbonImpactCalculator
    /\ clock = 0
    /\ call = NoCall
    /\ ret = NoRet
    /\ prev_ret = NoRet
    /\ current_metrics = CarbonDashboardSimulator.current_metrics
    /\ pc = "constructed"
    /\ time = 0
    /\ end_time = Zero
    /\ entry = "none"
    /\ pending = NoRet
    /\ results = NoRet
    /\ failure = NoRet
    /\ name = "none"
    /\ execution_logs = <<>>
    /\ total_energy = Zero
    /\ total_carbon = Zero
    /\ http_client_initialized = FALSE
    /\ config_cached = FALSE
    /\ suite_pc = "idle"
    /\ test_index = 0
    /\ suite_runs = 0
    /\ http_initialisations = 0
    /\ config_reads = 0

\* The caller keeps the outcome of the call op(args) it has just made.
Invoke(op, args, outcome) ==
    /\ call' = [op |-> op, args |-> args]
    /\ ret' = outcome
    /\ prev_ret' = NoRet
    /\ UNCHANGED <<self, clock>>
    /\ UNCHANGED dashboard_vars
    /\ UNCHANGED framework_vars

Again_folding_pue(outcome) ==
    /\ ret' = outcome
    /\ prev_ret' = ret
    /\ self' = [self EXCEPT !.CLOUD_PUE = R(1)]
    /\ UNCHANGED <<clock, call>>
    /\ UNCHANGED dashboard_vars
    /\ UNCHANGED framework_vars

\* The caller keeps the outcome of the call it has just made once more, with
\* the same arguments, next to the outcome it held.
Again(outcome) ==
    /\ ret' = outcome
    /\ prev_ret' = ret
    /\ UNCHANGED <<self, clock, call>>
    /\ UNCHANGED dashboard_vars
    /\ UNCHANGED framework_vars

CallBaseConsumption ==
    \/ /\ call = NoCall
       /\ \E s \in EstimateSamples :
            Invoke("calculate_base_consumption", <<s>>,
                   Returned(calculate_base_consumption(self, s)))
    \/ /\ call.op = "calculate_base_consumption"
       /\ Again(Returned(calculate_base_consumption(self, call.args[1])))

CallFrameworkComparison ==
    \/ /\ call = NoCall
       /\ \E s \in CompareSamples, w \in CompareSamples :
            Invoke("calculate_framework_comparison", <<s, w>>,
                   calculate_framework_comparison(self, s, w, clock))
    \/ /\ call.op = "calculate_framework_comparison"
       /\ Again(calculate_framework_comparison(self, call.args[1], call.args[2],
                                               clock))

CallAnnualProjections ==
    \/ /\ call = NoCall
       /\ \E n \in DailyTests, r \in ComparisonResults(self, clock) :
            Invoke("calculate_annual_projections", <<n, r>>,
                   Returned(calculate_annual_projections(self, n, r)))
    \/ /\ call.op = "calculate_annual_projections"
       /\ Again(Returned(calculate_annual_projections(self, call.args[1],
                                                      call.args[2])))

CallCarbonReport ==
    \/ /\ call = NoCall
       /\ \E l \in ScenarioLists :
            Invoke("generate_carbon_report", <<l>>,
                   generate_carbon_report(self, l, clock))
    \/ /\ call.op = "generate_carbon_report"
       /\ Again(generate_carbon_report(self, call.args[1], clock))

\* The caller drops the outcome it holds.
Discard ==
    /\ call # NoCall
    /\ call' = NoCall
    /\ ret' = NoRet
    /\ prev_ret' = NoRet
    /\ UNCHANGED <<self, clock>>
    /\ UNCHANGED dashboard_vars
    /\ UNCHANGED framework_vars

\* Wall-clock time passes.
Tick ==
    /\ clock < MaxClock
    /\ clock' = clock + 1
    /\ UNCHANGED <<self, call, ret, prev_ret>>
    /\ UNCHANGED dashboard_vars
    /\ UNCHANGED framework_vars

Next ==
    \/ CallBaseConsumption
    \/ CallFrameworkComparison
    \/ CallAnnualProjections
    \/ CallCarbonReport
    \/ Discard
    \/ Tick

Spec == Init /\ [][Next]_vars

(***************************************************************************)
(* The dashboard program.                                                  *)
(***************************************************************************)
\* run_simulation up to its loop, entered by caller
run_simulation(caller, duration_minutes) ==
    /\ entry' = caller
    /\ end_time' = Add(R(time), Mul(duration_minutes, R(60)))
    /\ pc' = "loop"
    /\ UNCHANGED <<current_metrics, time, pending, results, failure>>
    /\ UNCHANGED calculator_vars
    /\ UNCHANGED framework_vars

\* main: dashboard.run_simulation(duration_minutes=2) inside its try block
Main ==
    /\ pc = "constructed"
    /\ run_simulation("main", R(2))

\* run_simulation called on the object directly
RunSimulation ==
    /\ pc = "constructed"
    /\ \E duration_minutes \in DurationMinutes :
        run_simulation("run_simulation", duration_minutes)

\* while time.time() < end_time: both frameworks are simulated
StartTest ==
    /\ pc = "loop"
    /\ Lt(R(time), end_time)
    /\ current_metrics.sustainable.tests_run < MaxTests
    /\ \E test_duration \in TestDurations,
          sustainable_cpu \in SustainableCpu,
          sustainable_memory \in SustainableMemory,
          wasteful_cpu \in WastefulCpu,
          wasteful_memory \in WastefulMemory,
          network_overhead \in NetworkOverhead :
            pending' =
              [ sustainable_result |->
                  simulate_test_execution(CarbonDashboardSimulator,
                      "sustainable", test_duration, sustainable_cpu,
                      sustainable_memory, network_overhead),
                wasteful_result |->
                  simulate_test_execution(CarbonDashboardSimulator,
                      "wasteful", test_duration, wasteful_cpu,
                      wasteful_memory, network_overhead) ]
    /\ pc' = "update_sustainable"
    /\ UNCHANGED <<current_metrics, time, end_time, entry, results, failure>>
    /\ UNCHANGED calculator_vars
    /\ UNCHANGED framework_vars

\* the loop condition fails: run_simulation goes on to save the results
LeaveLoop ==
    /\ pc = "loop"
    /\ ~Lt(R(time), end_time)
    /\ pc' = "save"
    /\ UNCHANGED <<current_metrics, time, end_time, entry, pending, results, failure>>
    /\ UNCHANGED calculator_vars
    /\ UNCHANGED framework_vars

UpdateSustainable ==
    /\ pc = "update_sustainable"
    /\ current_metrics' =
         [current_metrics EXCEPT
            !.sustainable = add_result(@, pending.sustainable_result)]
    /\ pc' = "update_wasteful"
    /\ UNCHANGED <<time, end_time, entry, pending, results, failure>>
    /\ UNCHANGED calculator_vars
    /\ UNCHANGED framework_vars

UpdateWasteful ==
    /\ pc = "update_wasteful"
    /\ current_metrics' =
         [current_metrics EXCEPT
            !.wasteful = add_result(@, pending.wasteful_result)]
    /\ pc' = "display"
    /\ UNCHANGED <<time, end_time, entry, pending, results, failure>>
    /\ UNCHANGED calculator_vars
    /\ UNCHANGED framework_vars

\* display_dashboard prints, dividing only when wasteful energy > 0, and
\* the loop sleeps before its next test
DisplayAndSleep ==
    /\ pc = "display"
    /\ \E seconds \in SleepSeconds : time' = time + seconds
    /\ pending' = NoRet
    /\ pc' = "loop"
    /\ UNCHANGED <<current_metrics, end_time, entry, results, failure>>
    /\ UNCHANGED calculator_vars
    /\ UNCHANGED framework_vars

\* save_simulation_results ends: the file is written, or the exception it
\* raised ends the program, caught or not
finish_save(outcome, caught) ==
    /\ pc' = "done"
    /\ IF outcome.status = "returned"
         THEN results' = outcome /\ UNCHANGED failure
         ELSE failure' = [outcome EXCEPT !.status = caught] /\ UNCHANGED results
    /\ UNCHANGED <<current_metrics, time, end_time, entry, pending>>
    /\ UNCHANGED calculator_vars
    /\ UNCHANGED framework_vars

\* self.save_simulation_results() after the loop; main's 'except Exception'
\* catches what it raises, a direct caller gets the exception
SaveAfterLoop ==
    /\ pc = "save"
    /\ finish_save(save_simulation_results(current_metrics, time),
                   IF entry = "main" THEN "caught" ELSE "uncaught")

\* dashboard.save_simulation_results() in main's KeyboardInterrupt handler:
\* an exception raised inside the handler is caught by nothing
SaveInHandler ==
    /\ pc = "handler"
    /\ finish_save(save_simulation_results(current_metrics, time), "uncaught")

\* the user's Ctrl-C while run_simulation runs
KeyboardInterrupt ==
    /\ pc \in {"loop", "update_sustainable", "update_wasteful", "display", "save"}
    /\ \/ /\ entry = "main"
          /\ pc' = "handler"
          /\ UNCHANGED failure
       \/ /\ entry = "run_simulation"
          /\ pc' = "done"
          /\ failure' = [status |-> "uncaught", error |-> "KeyboardInterrupt"]
    /\ UNCHANGED <<current_metrics, time, end_time, entry, pending, results>>
    /\ UNCHANGED calculator_vars
    /\ UNCHANGED framework_vars

NextDashboard ==
    \/ Main
    \/ RunSimulation
    \/ StartTest
    \/ LeaveLoop
    \/ UpdateSustainable
    \/ UpdateWasteful
    \/ DisplayAndSleep
    \/ SaveAfterLoop
    \/ SaveInHandler
    \/ KeyboardInterrupt

SpecDashboard == Init /\ [][NextDashboard]_vars

(***************************************************************************)
(* The framework simulators.                                               *)
(***************************************************************************)
\* TestFrameworkSimulator.__init__(name), and the flags a
\* GreenerFrameworkSimulator adds
construct(simulator_name) ==
    /\ name' = simulator_name
    /\ execution_logs' = <<>>
    /\ total_energy' = Zero
    /\ total_carbon' = Zero
    /\ http_client_initialized' = FALSE
    /\ config_cached' = FALSE
    /\ UNCHANGED <<suite_pc, test_index, suite_runs, http_initialisations, config_reads>>
    /\ UNCHANGED calculator_vars
    /\ UNCHANGED dashboard_vars

ConstructSimulator ==
    /\ name = "none"
    /\ \E simulator_name \in SimulatorNames : construct(simulator_name)

ConstructGreener ==
    /\ name = "none"
    /\ construct("GreenerTestFramework")

log_execution_energy_only(test_name, duration, energy, carbon) ==
    /\ execution_logs' =
         Append(execution_logs,
                [ test |-> test_name,
                  duration_seconds |-> duration,
                  energy_joules |-> energy,
                  carbon_g_co2e |-> carbon,
                  timestamp |-> isoformat(clock) ])
    /\ total_energy' = Add(total_energy, energy)
    /\ total_carbon' = Add(total_carbon, energy)

\* the entry is appended and the two totals are raised
log_execution(test_name, duration, energy, carbon) ==
    /\ execution_logs' =
         Append(execution_logs,
                [ test |-> test_name,
                  duration_seconds |-> duration,
                  energy_joules |-> energy,
                  carbon_g_co2e |-> carbon,
                  timestamp |-> isoformat(clock) ])
    /\ total_energy' = Add(total_energy, energy)
    /\ total_carbon' = Add(total_carbon, carbon)

\* log_execution called on a plain simulator by its owner
LogExecution ==
    /\ name \in SimulatorNames
    /\ Len(execution_logs) < MaxLogs
    /\ \E test_name \in LogTestNames, duration \in LogDurations,
          energy \in LogEnergies, carbon \in LogCarbons :
            log_execution(test_name, duration, energy, carbon)
    /\ UNCHANGED <<name, http_client_initialized, config_cached, suite_pc, test_index, suite_runs, http_initialisations, config_reads>>
    /\ UNCHANGED calculator_vars
    /\ UNCHANGED dashboard_vars

\* run_test_suite up to its loop: the two one-time initialisations
BeginSuite ==
    /\ name = "GreenerTestFramework"
    /\ suite_pc = "idle"
    /\ suite_runs < MaxRuns
    /\ http_client_initialized' = TRUE
    /\ http_initialisations' =
         IF http_client_initialized THEN http_initialisations
         ELSE http_initialisations + 1
    /\ config_cached' = TRUE
    /\ config_reads' = IF config_cached THEN config_reads ELSE config_reads + 1
    /\ suite_pc' = "loop"
    /\ test_index' = 0
    /\ UNCHANGED <<name, execution_logs, total_energy, total_carbon, suite_runs>>
    /\ UNCHANGED calculator_vars
    /\ UNCHANGED dashboard_vars

\* the impact of one scenario is computed and logged
execute_test(scenario, energy) ==
    log_execution(scenario.test_name, scenario.duration, energy,
                  calculate_carbon_footprint(CarbonCalculator, energy))

\* one iteration of 'for test_name, duration, memory_gb in test_scenarios'
ExecuteTest ==
    /\ suite_pc = "loop"
    /\ test_index < Len(GreenTestScenarios)
    /\ execute_test(GreenTestScenarios[test_index + 1],
                    calculate_energy_consumption(CarbonCalculator,
                        GreenTestScenarios[test_index + 1].duration,
                        GreenTestScenarios[test_index + 1].memory_gb))
    /\ test_index' = test_index + 1
    /\ UNCHANGED <<name, http_client_initialized, config_cached, suite_pc, suite_runs, http_initialisations, config_reads>>
    /\ UNCHANGED calculator_vars
    /\ UNCHANGED dashboard_vars

EndSuite_disposing ==
    /\ suite_pc = "loop"
    /\ test_index = Len(GreenTestScenarios)
    /\ suite_pc' = "idle"
    /\ suite_runs' = suite_runs + 1
    /\ http_client_initialized' = FALSE
    /\ UNCHANGED <<name, execution_logs, total_energy, total_carbon, config_cached, test_index, http_initialisations, config_reads>>
    /\ UNCHANGED calculator_vars
    /\ UNCHANGED dashboard_vars

\* the loop is over: the closing messages are printed, nothing is disposed
EndSuite ==
    /\ suite_pc = "loop"
    /\ test_index = Len(GreenTestScenarios)
    /\ suite_pc' = "idle"
    /\ suite_runs' = suite_runs + 1
    /\ UNCHANGED <<name, execution_logs, total_energy, total_carbon, http_client_initialized, config_cached, test_index, http_initialisations, config_reads>>
    /\ UNCHANGED calculator_vars
    /\ UNCHANGED dashboard_vars

NextFrameworks ==
    \/ ConstructSimulator
    \/ ConstructGreener
    \/ LogExecution
    \/ BeginSuite
    \/ ExecuteTest
    \/ EndSuite
    \/ Tick

SpecFrameworks == Init /\ [][NextFrameworks]_vars

(***************************************************************************)
(* Vocabulary of the properties.                                           *)
(***************************************************************************)
IsBaseConsumption == call.op = "calculate_base_consumption"

IsComparison == call.op = "calculate_framework_comparison"

IsReport == call.op = "generate_carbon_report"

SampleFields ==
    {"duration_seconds", "cpu_utilization", "memory_gb", "storage_gb", "network_mb"}

\* the three reduction denominators the analyzer's contract names
ZeroBaselineDenominator(c, w) ==
    \/ IsZero(calculate_base_consumption(c, w).energy.total_joules)
    \/ IsZero(calculate_base_consumption(c, w).carbon.total_g_co2e)
    \/ IsZero(w.duration_seconds)

\* every divisor of a comparison against baseline w is non-zero: the three
\* above and the baseline cpu_utilization and memory_gb of the efficiency
\* analysis
NonZeroDenominators(c, w) ==
    /\ ~ZeroBaselineDenominator(c, w)
    /\ ~IsZero(w.cpu_utilization)
    /\ ~IsZero(w.memory_gb)

\* the outcome r of op with the wall-clock readings blanked
WithoutTimestamps(op, r) ==
    IF r.status # "returned" THEN r
    ELSE IF op = "calculate_framework_comparison"
        THEN Returned([r.value EXCEPT !.timestamp = "-"])
    ELSE IF op = "generate_carbon_report"
        THEN Returned([r.value EXCEPT
                !.report_metadata.generated_timestamp = "-",
                !.detailed_scenarios =
                    [i \in DOMAIN @ |-> [@[i] EXCEPT !.timestamp = "-"]]])
    ELSE r

\* s2 is s with one field raised (or equal), the other four unchanged
RaisedInOneField(s, s2) ==
    \E f \in SampleFields :
        /\ Leq(s[f], s2[f])
        /\ \A g \in SampleFields \ {f} : s2[g] = s[g]

(***************************************************************************)
(* C1.  calculate_framework_comparison fails with the controlled error     *)
(* kind DivisionByZero whenever a reduction denominator of the baseline    *)
(* (wasteful) sample is zero: total_joules, carbon_g or duration.          *)
(* The code raises Python's ZeroDivisionError out of the unguarded         *)
(* division instead, so this is violated.                                  *)
(***************************************************************************)
C1_DivisionByZeroKind ==
    (IsComparison /\ ZeroBaselineDenominator(self, call.args[2]))
        => ret = Raised("DivisionByZero")

(***************************************************************************)
(* C2.  calculate_base_consumption fails with InvalidInput, returning no   *)
(* result, whenever a quantity is negative or cpu_utilization is outside   *)
(* [0,1].  The code validates nothing and returns a result: violated.      *)
(***************************************************************************)
C2_InvalidInputRejected ==
    (IsBaseConsumption /\ ~ValidSample(call.args[1]))
        => ret = Raised("InvalidInput")

(***************************************************************************)
(* C3.  generate_carbon_report on an empty scenario list fails with the    *)
(* error kind EmptyInput.  The code divides by len([]) unchecked and       *)
(* raises ZeroDivisionError: violated.                                     *)
(***************************************************************************)
C3_EmptyInputKind ==
    (IsReport /\ call.args[1] = <<>>) => ret = Raised("EmptyInput")

(***************************************************************************)
(* C4.  A report over a list with a scenario whose comparison fails on a   *)
(* zero denominator is still produced, with that scenario retained (one    *)
(* detailed entry per input scenario) and left out of the averages.  The   *)
(* code lets the exception end the whole report: violated.                 *)
(***************************************************************************)
C4_FailingScenarioRetained ==
    (/\ IsReport
     /\ \E i \in 1..Len(call.args[1]) :
            ZeroBaselineDenominator(self, call.args[1][i].wasteful_metrics))
        => /\ ret.status = "returned"
           /\ Len(ret.value.detailed_scenarios) = Len(call.args[1])

C6_IdenticalSamplesZero ==
    (/\ IsComparison
     /\ call.args[1] = call.args[2]
     /\ ValidSample(call.args[1])
     /\ NonZeroDenominators(self, call.args[2]))
        => /\ ret.status = "returned"
           /\ ret.value.comparison_summary.energy_reduction_percent = Zero
           /\ ret.value.comparison_summary.carbon_reduction_percent = Zero
           /\ ret.value.comparison_summary.performance_improvement_percent = Zero
           /\ ret.value.comparison_summary.energy_saved_joules = Zero
           /\ ret.value.comparison_summary.carbon_saved_g_co2e = Zero

\* a working sample (positive energy) compared with itself
C6_Witness ==
    /\ IsComparison
    /\ call.args[1] = call.args[2]
    /\ ValidSample(call.args[1])
    /\ NonZeroDenominators(self, call.args[2])
    /\ ret.status = "returned"
    /\ Lt(Zero, ret.value.wasteful_framework.energy.total_joules)

(***************************************************************************)
(* C7.  For valid samples a, b where neither comparison has a zero         *)
(* denominator, swapping baseline and optimized negates the saved energy   *)
(* and the saved carbon, and a saving is the plain difference baseline     *)
(* minus optimized, negative when the optimized sample is worse.           *)
(***************************************************************************)
C7_SwapNegatesSavings ==
    (/\ IsComparison
     /\ ValidSample(call.args[1]) /\ ValidSample(call.args[2])
     /\ NonZeroDenominators(self, call.args[1])
     /\ NonZeroDenominators(self, call.args[2]))
        => /\ ret.status = "returned"
           /\ ret.value.comparison_summary.energy_saved_joules =
                Neg(calculate_framework_comparison(self, call.args[2], call.args[1],
                        clock).value.comparison_summary.energy_saved_joules)
           /\ ret.value.comparison_summary.carbon_saved_g_co2e =
                Neg(calculate_framework_comparison(self, call.args[2], call.args[1],
                        clock).value.comparison_summary.carbon_saved_g_co2e)
           /\ ret.value.comparison_summary.energy_saved_joules =
                Sub(ret.value.wasteful_framework.energy.total_joules,
                    ret.value.sustainable_framework.energy.total_joules)
           /\ ret.value.comparison_summary.carbon_saved_g_co2e =
                Sub(ret.value.wasteful_framework.carbon.total_g_co2e,
                    ret.value.sustainable_framework.carbon.total_g_co2e)

\* an optimized sample that is worse than the baseline: a negative saving
C7_Witness ==
    /\ IsComparison
    /\ ValidSample(call.args[1]) /\ ValidSample(call.args[2])
    /\ NonZeroDenominators(self, call.args[1])
    /\ NonZeroDenominators(self, call.args[2])
    /\ ret.status = "returned"
    /\ Lt(ret.value.comparison_summary.energy_saved_joules, Zero)
    /\ Lt(ret.value.comparison_summary.carbon_saved_g_co2e, Zero)

(***************************************************************************)
(* C8.  A sample with duration_seconds = 0 and the other fields valid      *)
(* makes calculate_base_consumption return normally with every component   *)
(* energy, total_wh, total_joules, total_kwh and both carbon figures 0.    *)
(***************************************************************************)
C8_ZeroDurationZeroEnergy ==
    (/\ IsBaseConsumption
     /\ ValidSample(call.args[1])
     /\ IsZero(call.args[1].duration_seconds))
        => /\ ret.status = "returned"
           /\ ret.value.energy.breakdown.cpu_wh = Zero
           /\ ret.value.energy.breakdown.memory_wh = Zero
           /\ ret.value.energy.breakdown.storage_wh = Zero
           /\ ret.value.energy.breakdown.network_wh = Zero
           /\ ret.value.energy.total_wh = Zero
           /\ ret.value.energy.total_joules = Zero
           /\ ret.value.energy.total_kwh = Zero
           /\ ret.value.carbon.total_g_co2e = Zero
           /\ ret.value.carbon.total_kg_co2e = Zero

\* zero duration with every resource in use
C8_Witness ==
    /\ IsBaseConsumption
    /\ ret.status = "returned"
    /\ IsZero(call.args[1].duration_seconds)
    /\ Lt(Zero, call.args[1].cpu_utilization) /\ Leq(call.args[1].cpu_utilization, R(1))
    /\ Lt(Zero, call.args[1].memory_gb)
    /\ Lt(Zero, call.args[1].storage_gb)
    /\ Lt(Zero, call.args[1].network_mb)

(***************************************************************************)
(* C9.  For valid samples, total_wh of calculate_base_consumption is       *)
(* monotonically non-decreasing in each of duration_seconds,               *)
(* cpu_utilization, memory_gb, storage_gb and network_mb, the other four   *)
(* held fixed.                                                             *)
(***************************************************************************)
C9_TotalWhMonotone ==
    (IsBaseConsumption /\ ValidSample(call.args[1]))
        => \A s2 \in EstimateSamples :
            (ValidSample(s2) /\ RaisedInOneField(call.args[1], s2))
                => Leq(ret.value.energy.total_wh,
                       calculate_base_consumption(self, s2).energy.total_wh)

\* a valid sample for which raising cpu_utilization alone raises total_wh
C9_Witness ==
    /\ IsBaseConsumption
    /\ ValidSample(call.args[1])
    /\ \E s2 \in EstimateSamples :
        /\ ValidSample(s2)
        /\ Lt(call.args[1].cpu_utilization, s2.cpu_utilization)
        /\ \A g \in SampleFields \ {"cpu_utilization"} : s2[g] = call.args[1][g]
        /\ Lt(ret.value.energy.total_wh,
              calculate_base_consumption(self, s2).energy.total_wh)

(***************************************************************************)
(* C10.  Every result of calculate_base_consumption on a valid sample has  *)
(* total_wh = (cpu_wh + memory_wh + storage_wh + network_wh) * CLOUD_PUE,  *)
(* the four components and pue_overhead_wh >= 0, pue_overhead_wh =         *)
(* total_wh - (sum of the four), total_joules = total_wh * 3600 and        *)
(* total_kwh = total_wh / 1000.                                            *)
(***************************************************************************)
ComponentSum(b) == Add(Add(Add(b.cpu_wh, b.memory_wh), b.storage_wh), b.network_wh)

C10_EnergyBreakdown ==
    (IsBaseConsumption /\ ValidSample(call.args[1]))
        => /\ ret.status = "returned"
           /\ ret.value.energy.total_wh =
                Mul(ComponentSum(ret.value.energy.breakdown), self.CLOUD_PUE)
           /\ Leq(Zero, ret.value.energy.breakdown.cpu_wh)
           /\ Leq(Zero, ret.value.energy.breakdown.memory_wh)
           /\ Leq(Zero, ret.value.energy.breakdown.storage_wh)
           /\ Leq(Zero, ret.value.energy.breakdown.network_wh)
           /\ Leq(Zero, ret.value.energy.breakdown.pue_overhead_wh)
           /\ ret.value.energy.breakdown.pue_overhead_wh =
                Sub(ret.value.energy.total_wh,
                    ComponentSum(ret.value.energy.breakdown))
           /\ ret.value.energy.total_joules =
                Mul(ret.value.energy.total_wh, R(3600))
           /\ ret.value.energy.total_kwh =
                Div(ret.value.energy.total_wh, R(1000))

\* a valid sample with all four components and the overhead positive
C10_Witness ==
    /\ IsBaseConsumption
    /\ ValidSample(call.args[1])
    /\ ret.status = "returned"
    /\ Lt(Zero, ret.value.energy.breakdown.cpu_wh)
    /\ Lt(Zero, ret.value.energy.breakdown.memory_wh)
    /\ Lt(Zero, ret.value.energy.breakdown.storage_wh)
    /\ Lt(Zero, ret.value.energy.breakdown.network_wh)
    /\ Lt(Zero, ret.value.energy.breakdown.pue_overhead_wh)

(***************************************************************************)
(* C11.  Every result of calculate_base_consumption has carbon             *)
(* total_g_co2e = energy total_kwh * grid_intensity_used, with             *)
(* grid_intensity_used the figure recorded in the same result, and         *)
(* total_kg_co2e = total_g_co2e / 1000.                                    *)
(***************************************************************************)
C11_CarbonFromEnergy ==
    IsBaseConsumption
        => /\ ret.status = "returned"
           /\ ret.value.carbon.total_g_co2e =
                Mul(ret.value.energy.total_kwh,
                    ret.value.carbon.grid_intensity_used)
           /\ ret.value.carbon.total_kg_co2e =
                Div(ret.value.carbon.total_g_co2e, R(1000))

\* a result with energy drawn, so that the carbon figures are not zero
C11_Witness ==
    /\ IsBaseConsumption
    /\ ret.status = "returned"
    /\ Lt(Zero, ret.value.energy.total_kwh)
    /\ Lt(Zero, ret.value.carbon.total_g_co2e)
    /\ Lt(Zero, ret.value.carbon.total_kg_co2e)

(***************************************************************************)
(* C12.  For every comparison and every daily_tests,                       *)
(* calculate_annual_projections returns equivalent_cars_removed =          *)
(* carbon_saved_tons / 4.6 and equivalent_trees_planted =                  *)
(* (carbon_saved_tons * 1000) / 22, where carbon_saved_tons =              *)
(* carbon_saved_g_co2e * daily_tests / 1000 * 365 / 1000, and the annual   *)
(* energy_saved_kwh = energy_saved_joules * daily_tests / 3_600_000 * 365. *)
(***************************************************************************)
IsProjection == call.op = "calculate_annual_projections"

IsInteger(x) == x.d = 1

C13_DailyTestsRejected ==
    (IsProjection /\ (Lt(call.args[1], Zero) \/ ~IsInteger(call.args[1])))
        => ret = Raised("InvalidInput")

(***************************************************************************)
(* C14.  generate_carbon_report produces exactly one projection, computed  *)
(* from the mean per-scenario energy and carbon saving (the sum of the     *)
(* savings divided by the number of scenarios), not from the sum, and      *)
(* scaled by a daily_tests value that the caller supplies: the value is    *)
(* an argument of the call.                                                *)
(***************************************************************************)
\* the saving f of every scenario of a returned report, in report order
SavedPerScenario(report, f) ==
    [ i \in 1..Len(report.detailed_scenarios) |->
        report.detailed_scenarios[i].comparison_summary[f] ]

\* the comparison holding the mean saving of the scenarios of a report
MeanSaving(report) ==
    [ comparison_summary |->
        [ energy_saved_joules |->
            Div(sum(SavedPerScenario(report, "energy_saved_joules")),
                R(Len(report.detailed_scenarios))),
          carbon_saved_g_co2e |->
            Div(sum(SavedPerScenario(report, "carbon_saved_g_co2e")),
                R(Len(report.detailed_scenarios))) ] ]

C14_CallerSuppliedDailyTests ==
    (IsReport /\ ret.status = "returned")
        => /\ Len(call.args) >= 2
           /\ ret.value.annual_projections =
                calculate_annual_projections(self, call.args[2],
                                             MeanSaving(ret.value))

(***************************************************************************)
(* C14, as the code has it.  generate_carbon_report takes the scenario     *)
(* list as its only argument and produces exactly one projection, computed *)
(* from the mean per-scenario energy and carbon saving, not from the sum,  *)
(* and scaled by the fixed figure of 100 tests a day.                      *)
(***************************************************************************)
C14_MeanSavingHundredTests ==
    (IsReport /\ ret.status = "returned")
        => /\ Len(call.args) = 1
           /\ ret.value.annual_projections =
                calculate_annual_projections(self, R(100),
                                             MeanSaving(ret.value))
           /\ ret.value.annual_projections.projection_parameters.daily_tests
                = R(100)

\* two scenarios with different savings, so that the mean is not the sum
C14_Witness ==
    /\ IsReport
    /\ ret.status = "returned"
    /\ Len(call.args[1]) = 2
    /\ Lt(Zero, sum(SavedPerScenario(ret.value, "energy_saved_joules")))
    /\ ret.value.detailed_scenarios[1].comparison_summary.energy_saved_joules
         # ret.value.detailed_scenarios[2].comparison_summary.energy_saved_joules
    /\ Lt(Zero, ret.value.annual_projections.annual_environmental_impact.energy_saved_kwh)

(***************************************************************************)
(* C15.  For any non-empty scenario list whose comparisons all succeed,    *)
(* the executive_summary totals of the report are the sums of the          *)
(* per-scenario energy_saved_joules and carbon_saved_g_co2e, its averages  *)
(* are the arithmetic means of the per-scenario reduction percentages,     *)
(* detailed_scenarios holds one named comparison per input scenario in     *)
(* input order, and scenarios_analyzed is the number of input scenarios.   *)
(***************************************************************************)
\* the comparison of one scenario on its own
ComparisonOf(scenario) ==
    calculate_framework_comparison(self, scenario.sustainable_metrics,
                                   scenario.wasteful_metrics, 0)

\* the figure f of each scenario's own comparison, in input order
PerScenario(test_scenarios, f) ==
    [ i \in 1..Len(test_scenarios) |->
        ComparisonOf(test_scenarios[i]).value.comparison_summary[f] ]

AllComparisonsSucceed(test_scenarios) ==
    \A i \in 1..Len(test_scenarios) :
        ComparisonOf(test_scenarios[i]).status = "returned"

C15_ReportAggregates ==
    (/\ IsReport
     /\ Len(call.args[1]) > 0
     /\ AllComparisonsSucceed(call.args[1]))
        => /\ ret.status = "returned"
           /\ ret.value.executive_summary.total_energy_saved_joules =
                sum(PerScenario(call.args[1], "energy_saved_joules"))
           /\ ret.value.executive_summary.total_carbon_saved_g_co2e =
                sum(PerScenario(call.args[1], "carbon_saved_g_co2e"))
           /\ ret.value.executive_summary.average_energy_reduction_percent =
                Div(sum(PerScenario(call.args[1], "energy_reduction_percent")),
                    R(Len(call.args[1])))
           /\ ret.value.executive_summary.average_carbon_reduction_percent =
                Div(sum(PerScenario(call.args[1], "carbon_reduction_percent")),
                    R(Len(call.args[1])))
           /\ Len(ret.value.detailed_scenarios) = Len(call.args[1])
           /\ \A i \in 1..Len(call.args[1]) :
                /\ ret.value.detailed_scenarios[i].scenario_name =
                     call.args[1][i].name
                /\ ret.value.detailed_scenarios[i].comparison_summary =
                     ComparisonOf(call.args[1][i]).value.comparison_summary
                /\ ret.value.detailed_scenarios[i].sustainable_framework.input_parameters
                     = call.args[1][i].sustainable_metrics
                /\ ret.value.detailed_scenarios[i].wasteful_framework.input_parameters
                     = call.args[1][i].wasteful_metrics
           /\ ret.value.report_metadata.scenarios_analyzed = Len(call.args[1])

\* two scenarios of different names, samples and savings
C15_Witness ==
    /\ IsReport
    /\ Len(call.args[1]) = 2
    /\ AllComparisonsSucceed(call.args[1])
    /\ ret.status = "returned"
    /\ call.args[1][1].name # call.args[1][2].name
    /\ call.args[1][1].wasteful_metrics # call.args[1][2].wasteful_metrics
    /\ ret.value.detailed_scenarios[1].comparison_summary.energy_reduction_percent
         # ret.value.detailed_scenarios[2].comparison_summary.energy_reduction_percent
    /\ Lt(Zero, ret.value.executive_summary.total_carbon_saved_g_co2e)

(***************************************************************************)
(* C16.  The methodology block of every report records the coefficients    *)
(* used by the computation that produced it: each of grid intensity, CPU   *)
(* watts, memory W/GB, storage W/GB, network W/MB, overhead factor, energy *)
(* price and carbon-credit price appears in the report with the value      *)
(* actually used.  The coefficients the report gives outside the           *)
(* methodology block, in projection_parameters, count as appearing.        *)
(***************************************************************************)
\* the coefficient values a report states
CoefficientsReported(report) ==
    { report.methodology[f] : f \in DOMAIN report.methodology }
        \cup { report.annual_projections.projection_parameters.energy_cost_per_kwh,
               report.annual_projections.projection_parameters.carbon_credit_cost_per_ton }

C16_MethodologyComplete ==
    (IsReport /\ ret.status = "returned")
        => \A k \in DOMAIN self : self[k] \in CoefficientsReported(ret.value)

(***************************************************************************)
(* C17.  No operation of CarbonImpactCalculator writes state shared        *)
(* between calls: every step leaves the calculator's coefficients and the  *)
(* caller's input records unchanged, and the outcome of every call,        *)
(* whatever calls were made before it, is the outcome the same call has    *)
(* when made alone on a newly constructed calculator (timestamps aside).   *)
(***************************************************************************)
\* the outcome of the call cl made alone on a newly constructed calculator
SequentialOutcome(cl) ==
    IF cl.op = "calculate_base_consumption"
        THEN Returned(calculate_base_consumption(CarbonImpactCalculator,
                                                 cl.args[1]))
    ELSE IF cl.op = "calculate_framework_comparison"
        THEN calculate_framework_comparison(CarbonImpactCalculator,
                                            cl.args[1], cl.args[2], 0)
    ELSE IF cl.op = "calculate_annual_projections"
        THEN Returned(calculate_annual_projections(CarbonImpactCalculator,
                                                   cl.args[1], cl.args[2]))
    ELSE generate_carbon_report(CarbonImpactCalculator, cl.args[1], 0)

NonZeroReductionBaselines(c, w) ==
    /\ ~IsZero(calculate_base_consumption(c, w).energy.total_joules)
    /\ ~IsZero(calculate_base_consumption(c, w).carbon.total_g_co2e)
    /\ ~IsZero(w.duration_seconds)

C18_OnlyThreeDenominators ==
    (/\ IsComparison
     /\ ValidSample(call.args[1])
     /\ ValidSample(call.args[2])
     /\ NonZeroReductionBaselines(self, call.args[2]))
        => ret.status = "returned"

C20_SaveOnlyWithPositiveTotals ==
    pc \in {"save", "handler"}
        => /\ Lt(Zero, current_metrics.wasteful.energy)
           /\ Lt(Zero, current_metrics.wasteful.carbon)
           /\ save_simulation_results(current_metrics, time).status = "returned"

(***************************************************************************)
(* C21.  After any sequence of log_execution calls on a                    *)
(* TestFrameworkSimulator, total_energy equals the sum of energy_joules    *)
(* over execution_logs and total_carbon equals the sum of carbon_g_co2e    *)
(* over execution_logs; each call appends exactly one log entry, keeping   *)
(* the entries before it, and changes nothing else of the object.          *)
(***************************************************************************)
\* the figure f of every entry of execution_logs, in order
LoggedFigures(f) == [ i \in 1..Len(execution_logs) |-> execution_logs[i][f] ]

TotalsMatchLogs ==
    /\ total_energy = sum(LoggedFigures("energy_joules"))
    /\ total_carbon = sum(LoggedFigures("carbon_g_co2e"))

C21_TotalsAreLogSums ==
    /\ []TotalsMatchLogs
    /\ [][ (name # "none" /\ execution_logs' # execution_logs)
             => /\ Len(execution_logs') = Len(execution_logs) + 1
                /\ SubSeq(execution_logs', 1, Len(execution_logs)) = execution_logs
                /\ UNCHANGED <<name, http_client_initialized, config_cached>> ]_vars

\* a plain simulator after two calls with different energy figures
C21_Witness ==
    /\ name \in SimulatorNames
    /\ Len(execution_logs) >= 2
    /\ execution_logs[1].energy_joules # execution_logs[2].energy_joules
    /\ Lt(Zero, execution_logs[2].carbon_g_co2e)
    /\ Lt(Zero, total_energy)
    /\ Lt(Zero, total_carbon)

(***************************************************************************)
(* C22.  Across any number of run_test_suite calls on one                  *)
(* GreenerFrameworkSimulator, the shared HTTP client initialisation and    *)
(* the configuration caching each happen exactly once, on the first call,  *)
(* and the flags http_client_initialized and config_cached never return to *)
(* False, while every call appends three log entries: after k calls        *)
(* execution_logs has 3k entries and total_energy and total_carbon are k   *)
(* times the totals of a single run.                                       *)
(***************************************************************************)
\* the energy of each scenario of one run of the suite
SingleRunEnergies ==
    [ i \in 1..Len(GreenTestScenarios) |->
        calculate_energy_consumption(CarbonCalculator,
            GreenTestScenarios[i].duration, GreenTestScenarios[i].memory_gb) ]

\* the carbon of each scenario of one run of the suite
SingleRunCarbons ==
    [ i \in 1..Len(GreenTestScenarios) |->
        calculate_carbon_footprint(CarbonCalculator, SingleRunEnergies[i]) ]

\* run_test_suite has been entered at least once
SuiteStarted == suite_runs > 0 \/ suite_pc # "idle"

GreenerRunTotals ==
    name = "GreenerTestFramework"
        => /\ http_initialisations = (IF SuiteStarted THEN 1 ELSE 0)
           /\ config_reads = (IF SuiteStarted THEN 1 ELSE 0)
           /\ http_client_initialized = SuiteStarted
           /\ config_cached = SuiteStarted
           /\ suite_pc = "idle"
                => /\ Len(execution_logs) = 3 * suite_runs
                   /\ total_energy = Mul(R(suite_runs), sum(SingleRunEnergies))
                   /\ total_carbon = Mul(R(suite_runs), sum(SingleRunCarbons))

====
